---- MODULE Spec2Model ----
(***************************************************************************)
(* A model of the generic web scraper of src/main.py: fetch_page,          *)
(* clean_text, analyze_structure, present_options, scrape_page,            *)
(* get_next_page and the orchestrating main().                             *)
(*                                                                         *)
(* Text is a sequence of one-character strings, so that clean_text, the    *)
(* class test and the anchor-text regex are computed, not assumed.         *)
(* An optional value (Python's None or a value) is a sequence of length 0  *)
(* (None) or 1 (the value).                                                *)
(* A parsed document is the sequence of its top-level elements, each with  *)
(* the sequence of its children.                                           *)
(***************************************************************************)
EXTENDS Integers, Sequences, FiniteSets, TLC

(***************************************************************************)
(* Bounds of the model.                                                    *)
(***************************************************************************)
\* the page budgets tried: max_pages \in 0..MaxPagesBudget
MaxPagesBudget == 3
\* the retry counts tried for fetch_page on its own: retries \in 0..MaxRetries
MaxRetries == 4
\* the sizes of the content-type list tried for present_options on its own
MaxTypes == 3
\* the longest operator input (number of comma-separated items) tried
MaxItems == 2
\* the number of lines read that the prompt counts
MaxPrompts == 2
\* the most containers of a document scrape_page is tried on
MaxBoxes == 2
\* the most elements of a document get_next_page is tried on
MaxAnchors == 2

(***************************************************************************)
(* Program constants.                                                      *)
(***************************************************************************)
\* fetch_page(url, retries=3, delay=2)
DefaultRetries == 3
DefaultDelay == 2
\* sleep(1) between pages
PolitenessDelay == 1
\* clean_text(elements[0].text)[:50]
SampleLen == 50

(***************************************************************************)
(* Text.                                                                   *)
(***************************************************************************)
None == << >>
Some(v) == << v >>
IsNone(o) == o = << >>

Min(S) == CHOOSE x \in S : \A y \in S : x <= y
Range(q) == {q[i] : i \in 1..Len(q)}

\* the characters Python's str.strip() and the regex class \s treat as blank
Whitespace == {" ", "\n", "\t"}
Digits == {"0", "1", "2", "3", "4", "5", "6", "7", "8", "9"}

\* the sentinel "N/A"
NA == <<"N", "/", "A">>

\* str.lower() on one character, for the letters the model's texts use
LowerChar(c) ==
    CASE c = "N" -> "n" [] c = "E" -> "e" [] c = "X" -> "x" [] c = "T" -> "t"
      [] c = "P" -> "p" [] c = "A" -> "a" [] c = "G" -> "g" [] c = "L" -> "l"
      [] OTHER -> c

\* str.lower()
Lower(s) == [i \in 1..Len(s) |-> LowerChar(s[i])]

\* whether sub occurs in s at position i
OccursAt(s, sub, i) ==
    /\ i + Len(sub) - 1 <= Len(s)
    /\ \A k \in 1..Len(sub) : s[i + k - 1] = sub[k]

\* Python's `sub in s`
Contains(s, sub) == \E i \in 1..(Len(s) + 1) : OccursAt(s, sub, i)

\* str.strip(): leading and trailing whitespace removed
RECURSIVE LStrip(_)
LStrip(s) ==
    IF s = << >> THEN << >>
    ELSE IF Head(s) \in Whitespace THEN LStrip(Tail(s)) ELSE s

RECURSIVE RStrip(_)
RStrip(s) ==
    IF s = << >> THEN << >>
    ELSE IF s[Len(s)] \in Whitespace THEN RStrip(SubSeq(s, 1, Len(s) - 1)) ELSE s

Strip(s) == RStrip(LStrip(s))

\* re.sub(r'\s+', ' ', s): every maximal run of whitespace becomes one space
RECURSIVE CollapseWs(_)
CollapseWs(s) ==
    IF s = << >> THEN << >>
    ELSE IF Head(s) \in Whitespace
         THEN <<" ">> \o CollapseWs(LStrip(s))
         ELSE <<Head(s)>> \o CollapseWs(Tail(s))

\* clean_text(text), text an optional string
clean_text(text) ==
    IF IsNone(text) \/ text[1] = << >> THEN NA
    ELSE LET t == CollapseWs(Strip(text[1]))
         IN  IF t # << >> THEN t ELSE NA

(***************************************************************************)
(* URLs.  A URL is [scheme, host, path]; path 0 is the empty path.  An     *)
(* href is absolute (it names its own scheme and host), relative (a path   *)
(* only) or the empty string.                                              *)
(***************************************************************************)
MkUrl(scheme, host, path) == [scheme |-> scheme, host |-> host, path |-> path]
AbsHref(scheme, host, path) ==
    [kind |-> "abs", scheme |-> scheme, host |-> host, path |-> path]
RelHref(path) == [kind |-> "rel", scheme |-> "", host |-> "", path |-> path]
EmptyHref == [kind |-> "empty", scheme |-> "", host |-> "", path |-> 0]

\* url.startswith(('http://', 'https://')) or 'https://' + url
NormalizeUrl(u) == IF u.scheme \in {"http", "https"} THEN u ELSE [u EXCEPT !.scheme = "https"]

\* f"{parsed_url.scheme}://{parsed_url.netloc}"
BaseUrlOf(u) == MkUrl(u.scheme, u.host, 0)

\* urllib.parse.urljoin(base, href) for a base without a path
urljoin(base, href) ==
    CASE href.kind = "abs" -> MkUrl(href.scheme, href.host, href.path)
      [] href.kind = "rel" -> MkUrl(base.scheme, base.host, href.path)
      [] OTHER -> base

(***************************************************************************)
(* Documents.                                                              *)
(***************************************************************************)
\* an element: its tag, its own text, its class and href attributes
\* (optional) and its children
Elem(tag, text, cls, href, kids) ==
    [tag |-> tag, text |-> text, cls |-> cls, href |-> href, kids |-> kids]
\* a content element <tag>text</tag>
Leaf(tag, text) == Elem(tag, text, None, None, << >>)
\* an anchor <a class=cls href=href>text</a>
Anchor(text, cls, href) == Elem("a", text, cls, href, << >>)
\* a container element with its children
Box(tag, kids) == Elem(tag, << >>, None, None, kids)

RECURSIVE Concat(_)
Concat(ss) == IF ss = << >> THEN << >> ELSE Head(ss) \o Concat(Tail(ss))

\* the elements below the root in document order
RECURSIVE AllElements(_)
AllElements(nodes) ==
    Concat([i \in 1..Len(nodes) |-> <<nodes[i]>> \o AllElements(nodes[i].kids)])

\* the descendants of one element in document order
Descendants(e) == AllElements(e.kids)

\* element.text: the element's own text and that of its descendants
RECURSIVE TextOf(_)
TextOf(e) == e.text \o Concat([i \in 1..Len(e.kids) |-> TextOf(e.kids[i])])

\* find_all(tags) over a sequence of elements
find_all(es, tags) == LET T(e) == e.tag \in tags IN SelectSeq(es, T)

\* find(...): the first match, or None
First(es) == IF es = << >> THEN None ELSE Some(Head(es))

(***************************************************************************)
(* analyze_structure                                                       *)
(***************************************************************************)
container_tags == <<"article", "div", "section", "li">>
content_tags == <<"h1", "h2", "h3", "p", "time">>
ContentTagSet == {content_tags[i] : i \in 1..Len(content_tags)}

\* tag.upper()
Upper(tag) ==
    CASE tag = "h1" -> "H1" [] tag = "h2" -> "H2" [] tag = "h3" -> "H3"
      [] tag = "p" -> "P" [] tag = "time" -> "TIME" [] OTHER -> tag

\* the (tag, element) pairs of one container tag: the elements of that tag
\* with at least one content-tag descendant
ContainersOfTag(soup, tag) ==
    LET Qualifies(e) == Len(find_all(Descendants(e), ContentTagSet)) > 0
        els == SelectSeq(find_all(AllElements(soup), {tag}), Qualifies)
    IN  [i \in 1..Len(els) |-> <<tag, els[i]>>]

\* the containers list, built tag by tag in whitelist order
Containers(soup) ==
    Concat([i \in 1..Len(container_tags) |-> ContainersOfTag(soup, container_tags[i])])

\* the entry of one content tag, when the document has an element of it
TagInfoOf(soup, tag) ==
    LET els == find_all(AllElements(soup), {tag})
    IN  IF els # << >>
        THEN LET c == clean_text(Some(TextOf(els[1])))
             IN  << [type |-> Upper(tag), tag |-> tag, count |-> Len(els),
                     sample |-> SubSeq(c, 1, IF Len(c) < SampleLen THEN Len(c) ELSE SampleLen)] >>
        ELSE << >>

\* the content-type list, with the entries of count 0 filtered out
TagInfo(soup) ==
    LET all == Concat([i \in 1..Len(content_tags) |-> TagInfoOf(soup, content_tags[i])])
        Counted(info) == info.count > 0
    IN  SelectSeq(all, Counted)

analyze_structure(soup) == [containers |-> Containers(soup), tag_info |-> TagInfo(soup)]

(***************************************************************************)
(* scrape_page                                                             *)
(***************************************************************************)
\* the tag of the last container instead of the first
ContainerTagLast(containers) ==
    IF containers # << >> THEN containers[Len(containers)][1] ELSE "article"

\* containers[0][0] if containers else 'article'
ContainerTag(containers) == IF containers # << >> THEN containers[1][1] ELSE "article"

\* [(tag_info[i-1]['tag'], tag_info[i-1]['type']) for i in selected_indices]
SelectedTags(tag_info, selected_indices) ==
    [k \in 1..Len(selected_indices) |->
        <<tag_info[selected_indices[k]].tag, tag_info[selected_indices[k]].type>>]

\* the value of one field of one container: clean_text(element.text if element else None)
FieldOf(article, tag) ==
    LET element == First(find_all(Descendants(article), {tag}))
    IN  clean_text(IF IsNone(element) THEN None ELSE Some(TextOf(element[1])))

\* the row dict of one container: column name -> cleaned text
RowOf(article, selected_tags) ==
    LET cols == {selected_tags[k][2] : k \in 1..Len(selected_tags)}
        TagOfCol(col) ==
            selected_tags[CHOOSE k \in 1..Len(selected_tags) :
                             /\ selected_tags[k][2] = col
                             /\ \A j \in (k + 1)..Len(selected_tags) : selected_tags[j][2] # col][1]
    IN  [col \in cols |-> FieldOf(article, TagOfCol(col))]

\* an extraction that omits a container without one of the selected tags
scrape_page_skip(soup, containers, tag_info, selected_indices) ==
    LET selected_tags == SelectedTags(tag_info, selected_indices)
        Complete(e) == \A k \in 1..Len(selected_tags) :
                          find_all(Descendants(e), {selected_tags[k][1]}) # << >>
        articles == SelectSeq(find_all(AllElements(soup), {ContainerTag(containers)}), Complete)
    IN  [i \in 1..Len(articles) |-> RowOf(articles[i], selected_tags)]

\* scrape_page(soup, containers, tag_info, selected_indices): one row per
\* element of the container tag, in document order
scrape_page(soup, containers, tag_info, selected_indices) ==
    LET articles == find_all(AllElements(soup), {ContainerTag(containers)})
        selected_tags == SelectedTags(tag_info, selected_indices)
    IN  [i \in 1..Len(articles) |-> RowOf(articles[i], selected_tags)]

(***************************************************************************)
(* get_next_page                                                           *)
(***************************************************************************)
StrNext == <<"n", "e", "x", "t">>
StrPage == <<"p", "a", "g", "e", " ">>

\* lambda x: x and 'next' in x.lower()
ClassHasNext(e) == ~IsNone(e.cls) /\ e.cls[1] # << >> /\ Contains(Lower(e.cls[1]), StrNext)

\* re.compile(r'next|page \d+', re.I) searched in the anchor's string
TextMatches(e) ==
    LET t == Lower(e.text)
    IN  \/ Contains(t, StrNext)
        \/ \E i \in 1..Len(t) :
              /\ OccursAt(t, StrPage, i)
              /\ i + Len(StrPage) <= Len(t)
              /\ t[i + Len(StrPage)] \in Digits

\* soup.find('a', class_=...)
FindByClass(soup) == First(SelectSeq(find_all(AllElements(soup), {"a"}), ClassHasNext))
\* soup.find('a', text=...)
FindByText(soup) == First(SelectSeq(find_all(AllElements(soup), {"a"}), TextMatches))

\* the anchor found by text taken when the one found by class has no href
NextButtonHrefFallback(soup) ==
    IF ~IsNone(FindByClass(soup)) /\ ~IsNone(FindByClass(soup)[1].href)
    THEN FindByClass(soup) ELSE FindByText(soup)

\* a or b on two optional elements: an element is always truthy
NextButton(soup) == IF ~IsNone(FindByClass(soup)) THEN FindByClass(soup) ELSE FindByText(soup)

\* get_next_page(soup, base_url): an optional URL
get_next_page(soup, base_url) ==
    LET next_button == NextButton(soup)
    IN  IF ~IsNone(next_button) /\ ~IsNone(next_button[1].href)
        THEN Some(urljoin(base_url, next_button[1].href[1]))
        ELSE None

(***************************************************************************)
(* present_options: the operator's input line                              *)
(***************************************************************************)
StrAll == <<"a", "l", "l">>

\* str.split(','): the items between the commas
RECURSIVE SplitComma(_, _)
SplitComma(s, cur) ==
    IF s = << >> THEN <<cur>>
    ELSE IF Head(s) = "," THEN <<cur>> \o SplitComma(Tail(s), << >>)
         ELSE SplitComma(Tail(s), Append(cur, Head(s)))

DigitValue(c) ==
    CASE c = "0" -> 0 [] c = "1" -> 1 [] c = "2" -> 2 [] c = "3" -> 3 [] c = "4" -> 4
      [] c = "5" -> 5 [] c = "6" -> 6 [] c = "7" -> 7 [] c = "8" -> 8 [] OTHER -> 9

RECURSIVE DecimalValue(_)
DecimalValue(ds) ==
    IF ds = << >> THEN 0 ELSE 10 * DecimalValue(SubSeq(ds, 1, Len(ds) - 1)) + DigitValue(ds[Len(ds)])

\* int(x): the optional integer of an item (None: ValueError); blanks around
\* the number and one sign are accepted
ParseInt(x) ==
    LET t == Strip(x)
        signed == t # << >> /\ Head(t) \in {"-", "+"}
        ds == IF signed THEN Tail(t) ELSE t
    IN  IF ds # << >> /\ \A i \in 1..Len(ds) : ds[i] \in Digits
        THEN Some(IF signed /\ Head(t) = "-" THEN 0 - DecimalValue(ds) ELSE DecimalValue(ds))
        ELSE None

\* [... for x in choices.split(',') if x.strip()]: the items that are kept
KeptItems(choices) == LET NonBlank(x) == Strip(x) # << >> IN SelectSeq(SplitComma(choices, << >>), NonBlank)

\* a prompt loop without the range test of line 93
EvalChoicesNoRange(choices, n) ==
    IF Lower(choices) = StrAll THEN Some([i \in 1..n |-> i])
    ELSE LET items == KeptItems(choices)
             ints == [k \in 1..Len(items) |-> ParseInt(items[k])]
         IN  IF \E k \in 1..Len(items) : IsNone(ints[k]) THEN None
             ELSE Some([k \in 1..Len(items) |-> ints[k][1]])

\* the outcome of one pass through the prompt loop on the line `choices`
\* with n content types: the selection returned, or None when the loop
\* prompts again (ValueError, or an index outside 1..n)
EvalChoices(choices, n) ==
    IF Lower(choices) = StrAll THEN Some([i \in 1..n |-> i])
    ELSE LET items == KeptItems(choices)
             ints == [k \in 1..Len(items) |-> ParseInt(items[k])]
         IN  IF \E k \in 1..Len(items) : IsNone(ints[k]) THEN None
             ELSE LET selected == [k \in 1..Len(items) |-> ints[k][1]]
                  IN  IF \A k \in 1..Len(selected) : 1 <= selected[k] /\ selected[k] <= n
                      THEN Some(selected) ELSE None

(***************************************************************************)
(* The end of main: DataFrame(all_data).drop_duplicates()                  *)
(*                      .replace('', 'N/A').fillna('N/A')                  *)
(***************************************************************************)
\* the missing-value marker of a frame cell
NaN == <<"nan">>

\* pd.DataFrame(rows): every row over the union of the keys, NaN where a row
\* has no such key
DataFrame(rows) ==
    LET cols == UNION {DOMAIN rows[i] : i \in 1..Len(rows)}
    IN  [i \in 1..Len(rows) |->
            [c \in cols |-> IF c \in DOMAIN rows[i] THEN rows[i][c] ELSE NaN]]

\* every row kept
drop_duplicates_none(df) == [k \in 1..Len(df) |-> k]

\* drop_duplicates(): the indices of the rows kept, the first occurrence of
\* every row
drop_duplicates(df) ==
    LET keep == {i \in 1..Len(df) : \A j \in 1..(i - 1) : df[j] # df[i]}
        Nth(k) == CHOOSE i \in keep : Cardinality({j \in keep : j < i}) = k - 1
    IN  [k \in 1..Cardinality(keep) |-> Nth(k)]

RowsAt(df, idx) == [k \in 1..Len(idx) |-> df[idx[k]]]

\* replace('', 'N/A')
replace_blank(df) ==
    [i \in 1..Len(df) |-> [c \in DOMAIN df[i] |-> IF df[i][c] = << >> THEN NA ELSE df[i][c]]]

\* fillna('N/A')
fillna(df) ==
    [i \in 1..Len(df) |-> [c \in DOMAIN df[i] |-> IF df[i][c] = NaN THEN NA ELSE df[i][c]]]

\* the frame that is written to the output file
Persisted(all_data) ==
    LET df == DataFrame(all_data)
    IN  fillna(replace_blank(RowsAt(df, drop_duplicates(df))))

(***************************************************************************)
(* The inputs of a run: the pages a server may answer with, and the lines  *)
(* the operator may type.                                                  *)
(***************************************************************************)
TextA == <<"a">>
TextB == <<" ", "b", "\n", " ">>
TextBlank == <<" ">>

\* three article elements, two of them equal, one without a p
ContentArticles ==
    << Box("article", <<Leaf("h2", TextA), Leaf("p", TextB)>>),
       Box("article", <<Leaf("h2", TextA), Leaf("p", TextB)>>),
       Box("article", <<Leaf("h2", TextB)>>) >>
\* an li before two divs, one of them around another li, and an article
\* without content: div qualifies first in whitelist order, li first in
\* document order
ContentMixed ==
    << Box("li", <<Leaf("p", TextA)>>), Box("div", <<Leaf("h2", TextBlank)>>),
       Box("div", << Box("li", <<Leaf("p", TextB)>>) >>), Box("article", << >>) >>
\* content elements outside every container
ContentBare == << Leaf("p", TextA) >>
\* markup without any whitelisted element
ContentNone == << >>
Contents == {ContentArticles, ContentMixed, ContentBare, ContentNone}

Paths == {1, 2}
ClassNext == <<"b", "t", "n", " ", "N", "e", "x", "t">>
TextPage2 == <<"P", "a", "g", "e", " ", "2">>
\* no anchor; an anchor of class next; an anchor of text "Page 2"; an anchor
\* of class next without href before an anchor of text "next" with one
AnchorLayouts ==
    { << >> }
    \cup { << Anchor(<<"2">>, Some(ClassNext), Some(RelHref(p))) >> : p \in Paths }
    \cup { << Anchor(TextPage2, None, Some(AbsHref("http", "other", 2))) >> }
    \cup { << Anchor(<<"x">>, Some(StrNext), None), Anchor(StrNext, None, Some(RelHref(2))) >> }

\* a response body: the empty string, or markup with its parsed elements
Body(nodes) == [empty |-> FALSE, nodes |-> nodes]
EmptyBody == [empty |-> TRUE, nodes |-> << >>]
Bodies == {Body(c \o a) : c \in Contents, a \in AnchorLayouts} \cup {EmptyBody}

\* Python's `not html`
Falsy(html) == IsNone(html) \/ html[1].empty
\* BeautifulSoup(html, 'html.parser')
BeautifulSoup(html) == html[1].nodes

RECURSIVE Join(_)
Join(items) ==
    IF Len(items) = 0 THEN << >>
    ELSE IF Len(items) = 1 THEN items[1]
         ELSE items[1] \o <<",">> \o Join(Tail(items))

\* the items an input line is made of
Items == { <<"1">>, <<"2">>, <<" ", "3", " ">>, <<"0">>, <<"4">>, <<"-", "1">>, <<"1", "0">>,
           << >>, <<" ">>, <<"x">>, <<"a", "l", "l">>, <<"A", "L", "l">>, <<" ", "a", "l", "l">> }
RECURSIVE SeqsUpTo(_, _)
SeqsUpTo(S, n) ==
    IF n = 0 THEN {<< >>}
    ELSE LET shorter == SeqsUpTo(S, n - 1)
         IN  shorter \cup {Append(q, x) : q \in {r \in shorter : Len(r) = n - 1}, x \in S}
\* the input lines, each as the sequence of its comma-separated items: up to
\* k items
Lines(k) == SeqsUpTo(Items, k) \ {<< >>}

\* the first tag, in whitelist order, of which the document has an element
\* with a content-tag descendant; None when no tag has one
FirstQualifyingTag(soup) ==
    LET all == AllElements(soup)
        Has(tag) == \E i \in 1..Len(all) :
                        /\ all[i].tag = tag
                        /\ \E d \in Range(Descendants(all[i])) : d.tag \in ContentTagSet
        good == {i \in 1..Len(container_tags) : Has(container_tags[i])}
    IN  IF good = {} THEN None
        ELSE Some(container_tags[CHOOSE i \in good : \A j \in good : i <= j])

VARIABLES
    pc,               \* where main is
    url,              \* main's url argument, normalised by the first step
    max_pages,        \* main's max_pages argument
    base_url,
    html,             \* the optional body of the last fetch
    containers,       \* analyze_structure's containers of the first page
    tag_info,         \* analyze_structure's content types of the first page
    selected_indices, \* present_options' result
    all_data,
    page_data,
    current_url,      \* the optional URL of the page to fetch
    page_num,
    output,           \* the optional frame written to the output file
    choices,          \* present_options: the optional line just read
    shown,            \* whether the content types were listed to the operator
    prompts,          \* the number of lines read, counted up to MaxPrompts
    typed,            \* the items of the line last read
    fpc,              \* where fetch_page is
    f_url, retries, delay, attempt,   \* fetch_page's arguments and loop index
    ret,              \* fetch_page's return value
    ftrace,           \* the GETs and sleeps of the current fetch_page call
    calls,            \* the fetch_page calls main made: before and in the loop
    failures,         \* the fetch_page calls that returned no usable body
    dead_ends,        \* the pages of the loop get_next_page found no next URL on
    polite,           \* the politeness sleeps taken
    first_tag         \* the first whitelisted tag with a qualifying element on
                      \* the analysed page, when there is one

mainVars == <<pc, url, max_pages, base_url, html, containers, tag_info, selected_indices,
              all_data, page_data, current_url, page_num, output>>
promptVars == <<choices, shown, prompts, typed>>
fetchVars == <<fpc, f_url, retries, delay, attempt, ret, ftrace>>
ghostVars == <<calls, failures, dead_ends, polite, first_tag>>
vars == <<mainVars, promptVars, fetchVars, ghostVars>>

(***************************************************************************)
(* fetch_page                                                              *)
(***************************************************************************)
\* the call fetch_page(u, r, d): range(r) is empty for r <= 0
CallFetch(u, r, d) ==
    /\ f_url' = u
    /\ retries' = r
    /\ delay' = d
    /\ attempt' = 0
    /\ ftrace' = << >>
    /\ ret' = None
    /\ fpc' = IF r > 0 THEN "get" ELSE "return"

\* the events of a fetch_page call
EvGet == [op |-> "get", secs |-> 0]
EvSleep(d) == [op |-> "sleep", secs |-> d]

\* requests.get and raise_for_status succeed: return response.text
FetchGetOk ==
    /\ fpc = "get"
    /\ \E body \in Bodies : ret' = Some(body)
    /\ ftrace' = Append(ftrace, EvGet)
    /\ fpc' = "return"
    /\ UNCHANGED <<f_url, retries, delay, attempt>>
    /\ UNCHANGED <<mainVars, promptVars, ghostVars>>

\* the action taken when the last attempt has failed
OnExhausted == ret' = None /\ fpc' = "return"

\* an exhaustion test that is never met inside the loop
LastAttemptLate == attempt = retries

\* line 32: attempt + 1 == retries
LastAttempt == attempt + 1 = retries

\* requests.RequestException (a transport error or an error status)
FetchGetFail ==
    /\ fpc = "get"
    /\ ftrace' = Append(ftrace, EvGet)
    /\ IF LastAttempt
       THEN OnExhausted
       ELSE ret' = ret /\ fpc' = "sleep"
    /\ UNCHANGED <<f_url, retries, delay, attempt>>
    /\ UNCHANGED <<mainVars, promptVars, ghostVars>>

\* sleep(delay), then the next attempt of the for loop
FetchSleep ==
    /\ fpc = "sleep"
    /\ ftrace' = Append(ftrace, EvSleep(delay))
    /\ attempt' = attempt + 1
    /\ IF attempt + 1 < retries
       THEN fpc' = "get" /\ ret' = ret
       ELSE fpc' = "return" /\ ret' = None
    /\ UNCHANGED <<f_url, retries, delay>>
    /\ UNCHANGED <<mainVars, promptVars, ghostVars>>

\* fetch_page's frame is gone once the caller has its value
FetchIdle ==
    /\ fpc' = "idle"
    /\ attempt' = 0
    /\ ftrace' = << >>
    /\ ret' = None
    /\ UNCHANGED <<f_url, retries, delay>>

(***************************************************************************)
(* main                                                                    *)
(***************************************************************************)
\* lines 134-140: the URL is normalised and the first page requested
Start ==
    /\ pc = "start"
    /\ url' = NormalizeUrl(url)
    /\ base_url' = BaseUrlOf(url')
    /\ CallFetch(url', DefaultRetries, DefaultDelay)
    /\ calls' = [calls EXCEPT !.first = @ + 1]
    /\ pc' = "first_fetch"
    /\ UNCHANGED <<max_pages, html, containers, tag_info, selected_indices, all_data,
                   page_data, current_url, page_num, output>>
    /\ UNCHANGED <<promptVars, failures, dead_ends, polite, first_tag>>

\* lines 140-153: the first page is analysed; present_options lists the
\* content types, or returns [] when there are none
AfterFirstFetch ==
    /\ pc = "first_fetch" /\ fpc = "return"
    /\ html' = ret
    /\ FetchIdle
    /\ failures' = failures + (IF Falsy(ret) THEN 1 ELSE 0)
    /\ IF Falsy(ret)
       THEN /\ pc' = "done"
            /\ UNCHANGED <<containers, tag_info, selected_indices, shown, first_tag>>
       ELSE LET soup == BeautifulSoup(ret)
                a == analyze_structure(soup)
            IN  /\ containers' = a.containers
                /\ tag_info' = a.tag_info
                /\ first_tag' = FirstQualifyingTag(soup)
                /\ IF a.containers = << >>
                   THEN pc' = "done" /\ UNCHANGED <<selected_indices, shown>>
                   ELSE IF a.tag_info = << >>
                        THEN pc' = "selected" /\ selected_indices' = << >> /\ UNCHANGED shown
                        ELSE pc' = "prompt" /\ shown' = TRUE /\ UNCHANGED selected_indices
    /\ UNCHANGED <<url, max_pages, base_url, all_data, page_data, current_url, page_num, output>>
    /\ UNCHANGED <<choices, prompts, typed, calls, dead_ends, polite>>

\* the lines typed in a run of main: one item, or the first two types
RunLines == Lines(1) \cup { << <<"1">>, <<"2">> >> }

\* line 89: input(...) returns the operator's line
ReadLine(lines) ==
    /\ pc = "prompt"
    /\ \E line \in lines : choices' = Some(Join(line)) /\ typed' = line
    /\ prompts' = IF prompts < MaxPrompts THEN prompts + 1 ELSE prompts
    /\ pc' = "prompt_eval"
    /\ UNCHANGED <<url, max_pages, base_url, html, containers, tag_info, selected_indices,
                   all_data, page_data, current_url, page_num, output>>
    /\ UNCHANGED <<shown, fetchVars, ghostVars>>

ReadInput == ReadLine(RunLines)

\* lines 90-97: the line is accepted and the selection returned, or it is
\* rejected and the loop prompts again
EvalInput ==
    /\ pc = "prompt_eval"
    /\ LET r == EvalChoices(choices[1], Len(tag_info))
       IN  IF IsNone(r)
           THEN pc' = "prompt" /\ typed' = << >> /\ UNCHANGED selected_indices
           ELSE pc' = "selected" /\ selected_indices' = r[1] /\ UNCHANGED typed
    /\ choices' = None
    /\ UNCHANGED <<url, max_pages, base_url, html, containers, tag_info,
                   all_data, page_data, current_url, page_num, output>>
    /\ UNCHANGED <<shown, prompts, fetchVars, ghostVars>>

\* a selection that ends the run without a page loop
SelectionEmptyNever == FALSE

\* line 154: not selected_indices
SelectionEmpty == selected_indices = << >>

\* lines 153-160: an empty selection ends the run, another one starts the loop
\* (present_options' frame, with its line and its count, is gone)
AfterSelection ==
    /\ pc = "selected"
    /\ IF SelectionEmpty
       THEN pc' = "done" /\ UNCHANGED <<all_data, current_url, page_num>>
       ELSE /\ all_data' = << >>
            /\ current_url' = Some(url)
            /\ page_num' = 0
            /\ pc' = "loop_head"
    /\ typed' = << >>
    /\ prompts' = 0
    /\ UNCHANGED <<url, max_pages, base_url, html, containers, tag_info, selected_indices,
                   page_data, output>>
    /\ UNCHANGED <<choices, shown, fetchVars, ghostVars>>

\* a loop that runs one page past the budget
InBudgetInclusive == page_num <= max_pages

\* line 161: page_num in range(max_pages)
InBudget == page_num < max_pages

\* lines 161-163: for page_num in range(max_pages): fetch_page(current_url)
LoopHead ==
    /\ pc = "loop_head"
    /\ IF InBudget
       THEN /\ CallFetch(current_url[1], DefaultRetries, DefaultDelay)
            /\ calls' = [calls EXCEPT !.loop = @ + 1]
            /\ pc' = "loop_fetch"
       ELSE /\ pc' = "finish"
            /\ UNCHANGED <<fetchVars, calls>>
    /\ UNCHANGED <<url, max_pages, base_url, html, containers, tag_info, selected_indices,
                   all_data, page_data, current_url, page_num, output>>
    /\ UNCHANGED <<promptVars, failures, dead_ends, polite, first_tag>>

\* a failed fetch that ends main at once
OnLoopFetchFailedReturn == "done"

\* line 165: break
OnLoopFetchFailed == "finish"

\* lines 163-165: a failed fetch leaves the loop
AfterLoopFetch ==
    /\ pc = "loop_fetch" /\ fpc = "return"
    /\ html' = ret
    /\ FetchIdle
    /\ failures' = failures + (IF Falsy(ret) THEN 1 ELSE 0)
    /\ pc' = IF Falsy(ret) THEN OnLoopFetchFailed ELSE "scrape"
    /\ UNCHANGED <<url, max_pages, base_url, containers, tag_info, selected_indices,
                   all_data, page_data, current_url, page_num, output>>
    /\ UNCHANGED <<promptVars, calls, dead_ends, polite, first_tag>>

\* lines 166-168: the page's rows are extracted and appended
Scrape ==
    /\ pc = "scrape"
    /\ page_data' = scrape_page(BeautifulSoup(html), containers, tag_info, selected_indices)
    /\ all_data' = all_data \o page_data'
    /\ pc' = "locate"
    /\ UNCHANGED <<url, max_pages, base_url, html, containers, tag_info, selected_indices,
                   current_url, page_num, output>>
    /\ UNCHANGED <<promptVars, fetchVars, ghostVars>>

\* a loop that goes on without a next URL
AfterLocateNoBreak(next_url) == "loop_sleep"

\* what the loop does with get_next_page's answer: without a URL it breaks
AfterLocate(next_url) == IF IsNone(next_url) THEN "finish" ELSE "loop_sleep"

\* lines 169-172: the next URL is looked up
Locate ==
    /\ pc = "locate"
    /\ current_url' = get_next_page(BeautifulSoup(html), base_url)
    /\ dead_ends' = dead_ends + (IF IsNone(current_url') THEN 1 ELSE 0)
    /\ pc' = AfterLocate(current_url')
    /\ UNCHANGED <<url, max_pages, base_url, html, containers, tag_info, selected_indices,
                   all_data, page_data, page_num, output>>
    /\ UNCHANGED <<promptVars, fetchVars, calls, failures, polite, first_tag>>

\* line 173: sleep(1), then the next iteration
LoopSleep ==
    /\ pc = "loop_sleep"
    /\ polite' = polite + 1
    /\ page_num' = page_num + 1
    /\ pc' = "loop_head"
    /\ UNCHANGED <<url, max_pages, base_url, html, containers, tag_info, selected_indices,
                   all_data, page_data, current_url, output>>
    /\ UNCHANGED <<promptVars, fetchVars, calls, failures, dead_ends, first_tag>>

\* the file written for a non-empty all_data
OutputOf(data) == [file |-> url.host, rows |-> Persisted(data)]

\* lines 175-184: the rows, when there are any, are deduplicated and saved
Finish ==
    /\ pc = "finish"
    /\ output' = IF all_data # << >> THEN Some(OutputOf(all_data)) ELSE None
    /\ pc' = "done"
    /\ UNCHANGED <<url, max_pages, base_url, html, containers, tag_info, selected_indices,
                   all_data, page_data, current_url, page_num>>
    /\ UNCHANGED <<promptVars, fetchVars, ghostVars>>

\* the URL typed without a scheme, and with one
StartUrls == {MkUrl("", "site", 1), MkUrl("https", "site", 1)}

InitCommon ==
    /\ base_url = MkUrl("", "", 0)
    /\ html = None
    /\ containers = << >>
    /\ tag_info = << >>
    /\ selected_indices = << >>
    /\ all_data = << >>
    /\ page_data = << >>
    /\ current_url = None
    /\ page_num = 0
    /\ output = None
    /\ choices = None
    /\ shown = FALSE
    /\ prompts = 0
    /\ typed = << >>
    /\ fpc = "idle"
    /\ f_url = MkUrl("", "", 0)
    /\ retries = 0
    /\ delay = 0
    /\ attempt = 0
    /\ ret = None
    /\ ftrace = << >>
    /\ calls = [first |-> 0, loop |-> 0]
    /\ failures = 0
    /\ dead_ends = 0
    /\ polite = 0
    /\ first_tag = None

Init ==
    /\ pc = "start"
    /\ url \in StartUrls
    /\ max_pages \in 0..MaxPagesBudget
    /\ InitCommon

Next ==
    \/ Start
    \/ FetchGetOk
    \/ FetchGetFail
    \/ FetchSleep
    \/ AfterFirstFetch
    \/ ReadInput
    \/ EvalInput
    \/ AfterSelection
    \/ LoopHead
    \/ AfterLoopFetch
    \/ Scrape
    \/ Locate
    \/ LoopSleep
    \/ Finish

Spec == Init /\ [][Next]_vars

(***************************************************************************)
(* fetch_page on its own: a call with any retry count, followed to its     *)
(* return.                                                                 *)
(***************************************************************************)
InitCall(other) ==
    /\ url \in {MkUrl("https", "site", 1)}
    /\ max_pages = 0
    /\ base_url = BaseUrlOf(url)
    /\ output = None
    /\ choices = None
    /\ prompts = 0
    /\ typed = << >>
    /\ calls = [first |-> 0, loop |-> 0]
    /\ failures = 0
    /\ dead_ends = 0
    /\ polite = 0
    /\ page_num = 0
    /\ page_data = << >>
    /\ all_data = << >>
    /\ other

FetchIdleInit ==
    /\ fpc = "idle" /\ f_url = MkUrl("", "", 0) /\ retries = 0 /\ delay = 0
    /\ attempt = 0 /\ ret = None /\ ftrace = << >>

InitFetch ==
    InitCall(/\ pc = "fetch_page"
             /\ html = None /\ containers = << >> /\ tag_info = << >>
             /\ selected_indices = << >> /\ current_url = None
             /\ shown = FALSE /\ first_tag = None
             /\ f_url \in {MkUrl("https", "site", p) : p \in Paths}
             /\ retries \in 0..MaxRetries
             /\ delay \in {PolitenessDelay, DefaultDelay}
             /\ attempt = 0 /\ ret = None /\ ftrace = << >>
             /\ fpc = IF retries > 0 THEN "get" ELSE "return")

NextFetch == FetchGetOk \/ FetchGetFail \/ FetchSleep

SpecFetch == InitFetch /\ [][NextFetch]_vars

(***************************************************************************)
(* present_options on its own: the prompt loop over a list of n content    *)
(* types and every line of up to MaxItems items.                           *)
(***************************************************************************)
\* a content-type list of n entries
TypesList(n) ==
    [i \in 1..n |-> [type |-> Upper(content_tags[i]), tag |-> content_tags[i],
                     count |-> 1, sample |-> TextA]]

InitPrompt ==
    InitCall(/\ pc = "prompt"
             /\ html = None /\ containers = << >>
             /\ tag_info \in {TypesList(n) : n \in 1..MaxTypes}
             /\ selected_indices = << >> /\ current_url = None
             /\ shown = TRUE /\ first_tag = None
             /\ FetchIdleInit)

PromptRead == ReadLine(Lines(MaxItems))

NextPrompt == PromptRead \/ EvalInput

SpecPrompt == InitPrompt /\ [][NextPrompt]_vars

(***************************************************************************)
(* scrape_page on its own: every document of up to MaxBoxes containers,    *)
(* with the containers and content types of a first page and a selection.  *)
(***************************************************************************)
\* the children a container may have
KidLayouts ==
    { << >>,
      << Leaf("h2", TextA) >>,
      << Leaf("p", TextBlank), Leaf("h2", << >>) >>,
      << Leaf("p", TextB), Leaf("h2", TextB), Leaf("p", TextA), Leaf("h2", TextA) >>,
      << Box("div", << Leaf("h2", TextB) >>), Leaf("h2", TextA) >> }
Boxes == {Box(tag, kids) : tag \in {"article", "div"}, kids \in KidLayouts}
ExtractDocs == SeqsUpTo(Boxes, MaxBoxes)

\* the selections present_options can return for n types: up to MaxItems indices
Selections(n) == SeqsUpTo(1..n, MaxItems) \ {<< >>}

InitExtract ==
    InitCall(/\ pc = "scrape"
             /\ \E first \in {ContentArticles, ContentMixed} :
                   /\ containers = Containers(first)
                   /\ tag_info = TagInfo(first)
                   /\ first_tag = FirstQualifyingTag(first)
             /\ selected_indices \in Selections(Len(tag_info))
             /\ html \in {Some(Body(d)) : d \in ExtractDocs}
             /\ current_url = Some(url)
             /\ shown = TRUE
             /\ FetchIdleInit)

SpecExtract == InitExtract /\ [][Scrape]_vars

(***************************************************************************)
(* get_next_page on its own: every document of up to MaxAnchors elements,  *)
(* most of them anchors.                                                   *)
(***************************************************************************)
AnchorClasses == {None, Some(ClassNext), Some(<<"p", "r", "e", "v">>)}
AnchorTexts == {<<"x">>, <<"N", "E", "X", "T", " ", ">">>, TextPage2, <<"p", "a", "g", "e", " ">>}
AnchorHrefs == {None, Some(RelHref(2)), Some(AbsHref("http", "other", 1)), Some(EmptyHref)}
LocateElements ==
    {Anchor(t, c, h) : t \in AnchorTexts, c \in AnchorClasses, h \in AnchorHrefs}
    \cup { Leaf("p", StrNext),
           Box("li", << Anchor(<<"x">>, Some(StrNext), Some(RelHref(1))) >>) }
LocateDocs == SeqsUpTo(LocateElements, MaxAnchors)

InitLocate ==
    InitCall(/\ pc = "locate"
             /\ containers = Containers(ContentArticles)
             /\ tag_info = TagInfo(ContentArticles)
             /\ first_tag = FirstQualifyingTag(ContentArticles)
             /\ selected_indices = <<1>>
             /\ html \in {Some(Body(d)) : d \in LocateDocs}
             /\ current_url = Some(url)
             /\ shown = TRUE
             /\ FetchIdleInit)

SpecLocate == InitLocate /\ [][Locate]_vars

(***************************************************************************)
(* The properties checked.                                                 *)
(***************************************************************************)
LoopPcs == {"loop_head", "loop_fetch", "scrape", "locate", "loop_sleep"}
\* the states of a run of main that has entered the page loop
InLoopRun == pc \in LoopPcs \cup {"finish", "done"} /\ selected_indices # << >>


\* the pages a run has requested: the first iteration of the loop requests
\* the start URL that was requested for the analysis
PagesFetched == IF calls.loop > 0 THEN calls.loop ELSE calls.first

\* every fetch so far succeeded and every page fetched carries a next link
AllFetchedAndLinked ==
    /\ failures = 0
    /\ dead_ends = 0
    /\ ~Falsy(html)
    /\ calls.loop = 0 => ~IsNone(get_next_page(BeautifulSoup(html), base_url))

\* C1 as stated: with a budget N >= 1, when every fetch succeeds and every
\* fetched page carries a next-page link, the finished run has fetched
\* exactly N pages.
C1_ExactlyBudgetPages ==
    (pc = "done" /\ max_pages >= 1 /\ AllFetchedAndLinked) => PagesFetched = max_pages

\* C1 as amended: the page loop never requests more than N pages, and a run
\* that entered the page loop (page 1 has containers, the selection is not
\* empty), in which every fetch succeeded and every page of the loop carried
\* a next-page link, ends with exactly N pages requested by the loop, the
\* link found on page N left unrequested.
C1_BudgetPagesOnceInLoop ==
    /\ calls.loop <= max_pages
    /\ (pc = "done" /\ max_pages >= 1 /\ selected_indices # << >>
            /\ failures = 0 /\ dead_ends = 0)
        => /\ calls.loop = max_pages
           /\ calls.first = 1
           /\ PagesFetched = max_pages
           /\ ~IsNone(current_url)

C1_Witness ==
    /\ pc = "done" /\ max_pages = 2 /\ selected_indices # << >>
    /\ failures = 0 /\ dead_ends = 0
    /\ calls.loop = 2 /\ ~IsNone(current_url)

\* the GETs among the events of the current fetch_page call
GetsOf(trace) == Cardinality({i \in 1..Len(trace) : trace[i].op = "get"})

\* C2: a fetch_page call with retries = n >= 1 never makes more than n GETs,
\* and when it returns None it has made exactly n GETs with one sleep of
\* `delay` between two consecutive GETs and none after the last; it always
\* ends by returning.
C2_ExactlyRetriesAttempts ==
    retries >= 1 =>
        /\ fpc \in {"get", "sleep", "return"}
        /\ GetsOf(ftrace) <= retries
        /\ (fpc = "return" /\ IsNone(ret)) =>
              /\ GetsOf(ftrace) = retries
              /\ Len(ftrace) = 2 * retries - 1
              /\ \A i \in 1..Len(ftrace) :
                    ftrace[i] = IF i % 2 = 1 THEN EvGet ELSE EvSleep(delay)

C2_Witness ==
    /\ fpc = "return" /\ IsNone(ret) /\ retries = DefaultRetries
    /\ GetsOf(ftrace) = DefaultRetries

\* C3: once get_next_page has returned None in the page loop, the loop is
\* left: no further page is requested and no politeness sleep is taken,
\* whatever budget remains, and the run ends with the terminal action done
\* on the rows gathered.
C3_NoNextLeavesLoop ==
    (InLoopRun /\ IsNone(current_url)) =>
        /\ pc \in {"finish", "done"}
        /\ fpc = "idle"
        /\ calls.loop = page_num + 1
        /\ polite = page_num
        /\ pc = "done" =>
              output = IF all_data # << >> THEN Some(OutputOf(all_data)) ELSE None

C3_Witness ==
    /\ pc = "done" /\ selected_indices # << >> /\ IsNone(current_url)
    /\ page_num + 1 < max_pages
    /\ ~IsNone(output)

\* C4: when the first fetch fails, or page 1 has no containers, or the
\* selection is empty, the run is done without entering the page loop: one
\* fetch_page call only, no row extracted, no output written, no sleep; and
\* without containers the content types are never listed nor a line read.
C4_EarlyExits ==
    /\ pc \in LoopPcs \cup {"finish"} => (containers # << >> /\ selected_indices # << >>)
    /\ (pc \notin {"start", "first_fetch"} /\ containers = << >>) =>
          pc = "done" /\ ~shown /\ prompts = 0
    /\ (pc \notin {"start", "first_fetch", "prompt", "prompt_eval", "selected"}
            /\ selected_indices = << >>) => pc = "done"
    /\ (pc = "done" /\ (containers = << >> \/ selected_indices = << >>)) =>
          /\ calls = [first |-> 1, loop |-> 0]
          /\ all_data = << >> /\ page_data = << >>
          /\ IsNone(output)
          /\ polite = 0
    /\ (pc # "start" /\ calls.loop = 0 /\ fpc = "idle" /\ Falsy(html)) =>
          pc = "done" /\ containers = << >>

C4_Witness ==
    /\ pc = "done" /\ ~Falsy(html) /\ containers = << >>
    /\ tag_info # << >> /\ ~shown /\ IsNone(output)

\* the rows the claims expect of a page: one per element of container tag
\* `ctag`, in document order; a field is the cleaned text of the first
\* descendant of its tag, or "N/A"
ExpectedField(e, tag) ==
    LET below == Descendants(e)
        idx == {k \in 1..Len(below) : below[k].tag = tag}
    IN  IF idx = {} THEN NA ELSE clean_text(Some(TextOf(below[Min(idx)])))
ElementsOfTag(soup, ctag) == LET T(e) == e.tag = ctag IN SelectSeq(AllElements(soup), T)
SelectedLabels == {tag_info[selected_indices[k]].type : k \in 1..Len(selected_indices)}
RowsAsExpected(rows, soup, ctag) ==
    LET arts == ElementsOfTag(soup, ctag)
    IN  /\ Len(rows) = Len(arts)
        /\ \A i \in 1..Len(rows) :
              /\ DOMAIN rows[i] = SelectedLabels
              /\ \A k \in 1..Len(selected_indices) :
                    LET info == tag_info[selected_indices[k]]
                    IN  /\ rows[i][info.type] = ExpectedField(arts[i], info.tag)
                        /\ rows[i][info.type] # << >>

C6_OneRowPerContainer ==
    pc = "locate" => RowsAsExpected(page_data, BeautifulSoup(html), first_tag[1])

C6_Witness ==
    /\ pc = "locate" /\ Len(page_data) = 2 /\ Len(selected_indices) = 2
    /\ \E i \in 1..Len(page_data) :
          /\ ElementsOfTag(BeautifulSoup(html), first_tag[1])[i].kids = << >>
          /\ \A c \in DOMAIN page_data[i] : page_data[i][c] = NA
    /\ \E i \in 1..Len(page_data) : \A c \in DOMAIN page_data[i] : page_data[i][c] # NA

\* what the items of a line stand for
NumberItems == { <<"1">>, <<"2">>, <<" ", "3", " ">>, <<"0">>, <<"4">>, <<"-", "1">>, <<"1", "0">> }
BlankItems == { << >>, <<" ">> }
IndexOf(x) ==
    CASE x = <<"1">> -> 1 [] x = <<"2">> -> 2 [] x = <<" ", "3", " ">> -> 3 [] x = <<"0">> -> 0
      [] x = <<"4">> -> 4 [] x = <<"-", "1">> -> 0 - 1 [] OTHER -> 10
IsAllLine(line) == Len(line) = 1 /\ line[1] \in { <<"a", "l", "l">>, <<"A", "L", "l">> }
InRange(x) == x \in NumberItems /\ 1 <= IndexOf(x) /\ IndexOf(x) <= Len(tag_info)
\* the indices of the items of a line that are not blank, in order
RECURSIVE IndicesOf(_)
IndicesOf(line) ==
    IF line = << >> THEN << >>
    ELSE (IF Head(line) \in BlankItems THEN << >> ELSE <<IndexOf(Head(line))>>)
         \o IndicesOf(Tail(line))

\* C7 as stated: present_options returns only on the line "all" or on a
\* comma-separated list of integers all within 1..n.
C7_ReturnsOnlyOnIntegers ==
    pc = "selected" => (IsAllLine(typed) \/ \A k \in 1..Len(typed) : InRange(typed[k]))

\* a line the prompt must reject: not "all", and with an item that is
\* neither blank nor an integer within 1..n
BadLine(line) ==
    /\ ~IsAllLine(line)
    /\ \E k \in 1..Len(line) : line[k] \notin BlankItems /\ ~InRange(line[k])

\* what present_options has returned
ReturnedSelection ==
    pc = "selected" =>
        /\ \A k \in 1..Len(selected_indices) :
              1 <= selected_indices[k] /\ selected_indices[k] <= Len(tag_info)
        /\ ~BadLine(typed)
        /\ selected_indices =
              IF IsAllLine(typed) THEN [i \in 1..Len(tag_info) |-> i] ELSE IndicesOf(typed)

\* what the prompt does with the line read
LineDecided ==
    pc = "prompt_eval" =>
        IF BadLine(typed)
        THEN pc' = "prompt" /\ selected_indices' = selected_indices
        ELSE pc' = "selected"

\* C7 as amended: present_options returns only on the line "all" (in any
\* case), giving 1..n in order, or on a comma-separated list whose items,
\* the blank ones (empty or whitespace only) left out, are all integers
\* within 1..n, giving exactly those in order (the empty list for a line of
\* blank items only); a line with an integer outside 1..n or an item that is
\* neither blank nor an integer is rejected and the prompt reads another
\* line, however many were rejected before; every index returned is in 1..n.
C7_ReturnsOnBlankOrIntegers == []ReturnedSelection /\ [][LineDecided]_vars

C7_Witness ==
    /\ pc = "selected" /\ prompts = MaxPrompts
    /\ selected_indices = <<2, 1>>

\* C8: the rows written hold no two equal rows, hold every row gathered and
\* no other, and stand in the order of their first occurrence among the rows
\* gathered.
C8_OutputDeduplicated ==
    ~IsNone(output) =>
        LET rows == output[1].rows
            FirstPos(r) == Min({k \in 1..Len(all_data) : all_data[k] = r})
        IN  /\ pc = "done"
            /\ \A i, j \in 1..Len(rows) : i < j => rows[i] # rows[j]
            /\ Range(rows) = Range(all_data)
            /\ \A i, j \in 1..Len(rows) : i < j => FirstPos(rows[i]) < FirstPos(rows[j])

C8_Witness ==
    /\ pc = "done" /\ ~IsNone(output)
    /\ page_num >= 1 /\ f_url = url
    /\ Len(output[1].rows) = 2 /\ Len(all_data) >= 6

\* the class attributes and the anchor texts that mark a next link
NextClasses == {ClassNext, StrNext}
NextTexts == {<<"N", "E", "X", "T", " ", ">">>, TextPage2, StrNext}
\* the URL the claim expects from a page
ExpectedNext(soup, base) ==
    LET IsA(e) == e.tag = "a"
        as == SelectSeq(AllElements(soup), IsA)
        byClass == {i \in 1..Len(as) : ~IsNone(as[i].cls) /\ as[i].cls[1] \in NextClasses}
        byText == {i \in 1..Len(as) : as[i].text \in NextTexts}
        chosen == IF byClass # {} THEN {Min(byClass)}
                  ELSE IF byText # {} THEN {Min(byText)} ELSE {}
    IN  IF chosen = {} THEN None
        ELSE LET a == as[Min(chosen)]
             IN  IF IsNone(a.href) THEN None
                 ELSE LET h == a.href[1]
                      IN  Some(IF h.kind = "abs" THEN MkUrl(h.scheme, h.host, h.path)
                               ELSE IF h.kind = "rel" THEN MkUrl(base.scheme, base.host, h.path)
                               ELSE base)

\* C9: get_next_page takes the first anchor whose class contains "next", and
\* only without one the first anchor whose text matches next / page
\* <number>; it returns that anchor's href resolved against base_url, and
\* None when no anchor is taken or the one taken has no href.
C9_NextByClassThenText ==
    pc \in {"finish", "loop_sleep"} =>
        current_url = ExpectedNext(BeautifulSoup(html), base_url)

C9_Witness ==
    /\ pc = "finish" /\ IsNone(current_url)
    /\ LET soup == BeautifulSoup(html)
       IN  /\ Len(soup) = 2
           /\ soup[1].tag = "a" /\ soup[1].cls = Some(ClassNext) /\ IsNone(soup[1].href)
           /\ soup[2].tag = "a" /\ soup[2].text = TextPage2 /\ soup[2].href = Some(RelHref(2))

\* the rows gathered stay as they are from the head of an iteration to the
\* end of the run, and a failed fetch goes to the terminal action
RowsKeptOnFailure ==
    pc \in {"loop_head", "loop_fetch", "finish"} =>
        /\ all_data' = all_data
        /\ (pc = "loop_fetch" /\ fpc = "return" /\ Falsy(ret)) => pc' = "finish"
        /\ pc = "finish" => pc' = "done"

\* what holds once a fetch has failed in iteration k >= 2
AfterLoopFailure ==
    (InLoopRun /\ Falsy(html) /\ page_num >= 1) =>
        /\ pc \in {"finish", "done"}
        /\ calls.loop = page_num + 1
        /\ failures = 1
        /\ pc = "done" =>
              (all_data # << >> =>
                  /\ ~IsNone(output)
                  /\ Range(all_data) = Range(output[1].rows))

\* C10: a fetch that fails in iteration k >= 2 of the page loop leaves the
\* loop: no further page is requested, the rows gathered from the pages
\* before are kept, and the finished run has written them whenever there is
\* at least one.
C10_LoopFailureKeepsRows == []AfterLoopFailure /\ [][RowsKeptOnFailure]_vars

C10_Witness ==
    /\ pc = "done" /\ selected_indices # << >> /\ IsNone(html) /\ page_num = 1
    /\ page_num + 1 < max_pages
    /\ ~IsNone(output) /\ Len(all_data) >= 3
====
